---------------------------- MODULE Spec2Model ----------------------------
(***************************************************************************)
(* A model of the request router of iter.go: route registration (Handle), *)
(* the segment matcher (route.match), the per-request scan (ServeHTTP),   *)
(* middleware composition (Use, wrap) and groups (Group).                  *)
(*                                                                         *)
(* Go strings are modelled as sequences of one-character strings, so that  *)
(* strings.Split, strings.Join, strings.Cut, strings.HasPrefix, ... are     *)
(* computed as the library computes them.                                  *)
(***************************************************************************)
EXTENDS Integers, Sequences, FiniteSets, TLC

(***************************************************************************)
(* Bounds of the model.                                                    *)
(***************************************************************************)
\* number of Handle calls
MaxHandles == 2
\* number of Handle calls made on a router that has middleware or groups
MaxRegs == 1
\* number of middleware values passed to Use, over all calls
MaxUses == 2
\* the same, where a group and its parent both call Use
MaxGroupUses == 3
\* nesting depth of Group callbacks
MaxDepth == 1
\* spare capacity a reallocating append may leave behind
MaxSpare == 1

(***************************************************************************)
(* Strings.                                                                *)
(***************************************************************************)
Lower == <<"a","b","c","d","e","f","g","h","i","j","k","l","m",
           "n","o","p","q","r","s","t","u","v","w","x","y","z">>
Upper == <<"A","B","C","D","E","F","G","H","I","J","K","L","M",
           "N","O","P","Q","R","S","T","U","V","W","X","Y","Z">>

UpperChar(c) ==
    IF \E i \in 1..Len(Lower) : Lower[i] = c
    THEN Upper[CHOOSE i \in 1..Len(Lower) : Lower[i] = c]
    ELSE c

\* strings.ToUpper
ToUpper(s) == [i \in 1..Len(s) |-> UpperChar(s[i])]

\* strings.HasPrefix
HasPrefix(s, p) == Len(s) >= Len(p) /\ SubSeq(s, 1, Len(p)) = p

\* strings.HasSuffix
HasSuffix(s, p) == Len(s) >= Len(p) /\ SubSeq(s, Len(s) - Len(p) + 1, Len(s)) = p

\* strings.TrimPrefix
TrimPrefix(s, p) == IF HasPrefix(s, p) THEN SubSeq(s, Len(p) + 1, Len(s)) ELSE s

\* strings.Index for a one-character separator; 0 when absent
IndexOf(s, c) ==
    IF \E i \in 1..Len(s) : s[i] = c
    THEN CHOOSE i \in 1..Len(s) : s[i] = c /\ \A j \in 1..(i-1) : s[j] # c
    ELSE 0

\* strings.Cut for a one-character separator
Cut(s, c) ==
    LET i == IndexOf(s, c) IN
    IF i = 0
    THEN [before |-> s, after |-> <<>>, found |-> FALSE]
    ELSE [before |-> SubSeq(s, 1, i - 1), after |-> SubSeq(s, i + 1, Len(s)), found |-> TRUE]

\* strings.Split for a one-character separator
RECURSIVE Split(_, _)
Split(s, c) ==
    LET i == IndexOf(s, c) IN
    IF i = 0 THEN <<s>>
    ELSE <<SubSeq(s, 1, i - 1)>> \o Split(SubSeq(s, i + 1, Len(s)), c)

\* strings.Join for a one-character separator
RECURSIVE Join(_, _)
Join(segs, c) ==
    IF Len(segs) = 0 THEN <<>>
    ELSE IF Len(segs) = 1 THEN segs[1]
    ELSE segs[1] \o <<c>> \o Join(Tail(segs), c)

\* contains (iter.go)
contains(s, e) == \E i \in 1..Len(s) : s[i] = e

(***************************************************************************)
(* Regular expressions: the fragment  ^? (atom +?)* $?  with atom a        *)
(* literal character or the class [0-9].  MatchString reports whether the  *)
(* text CONTAINS a match (regexp.MatchString is unanchored).               *)
(***************************************************************************)
Digits == {"0","1","2","3","4","5","6","7","8","9"}

IsClass(re, i) == re[i] = "["
AtomLen(re, i) == IF IsClass(re, i) THEN 5 ELSE 1
AtomMatches(re, i, c) == IF IsClass(re, i) THEN c \in Digits ELSE c = re[i]

\* does re[i..] match a prefix of s[j..] ?
RECURSIVE MatchHere(_, _, _, _)
MatchHere(re, i, s, j) ==
    IF i > Len(re) THEN TRUE
    ELSE IF re[i] = "$" /\ i = Len(re) THEN j > Len(s)
    ELSE LET n == i + AtomLen(re, i) IN
         IF n <= Len(re) /\ re[n] = "+"
         THEN \E k \in j..Len(s) :
                 /\ \A x \in j..k : AtomMatches(re, i, s[x])
                 /\ MatchHere(re, n + 1, s, k + 1)
         ELSE /\ j <= Len(s)
              /\ AtomMatches(re, i, s[j])
              /\ MatchHere(re, n, s, j + 1)

\* (*regexp.Regexp).MatchString
MatchString(re, s) ==
    IF Len(re) > 0 /\ re[1] = "^"
    THEN MatchHere(re, 2, s, 1)
    ELSE \E j \in 1..(Len(s) + 1) : MatchHere(re, 1, s, j)


(***************************************************************************)
(* HTTP methods and the package variables.                                 *)
(***************************************************************************)
MethodDelete  == <<"D","E","L","E","T","E">>
MethodGet     == <<"G","E","T">>
MethodHead    == <<"H","E","A","D">>
MethodOptions == <<"O","P","T","I","O","N","S">>
MethodPatch   == <<"P","A","T","C","H">>
MethodPost    == <<"P","O","S","T">>
MethodPut     == <<"P","U","T">>
MethodTrace   == <<"T","R","A","C","E">>

allMethods == <<MethodDelete, MethodGet, MethodHead, MethodOptions,
                MethodPatch, MethodPost, MethodPut, MethodTrace>>

VARIABLES
    routes,      \* *m.routes: the route table shared by the router and its groups
    rxPatterns,  \* the package-level regex cache: the sources compiled so far
    muxes,       \* muxes[1] is the router of New(); muxes[k+1] the copy made by
                 \* the k-th nested Group call whose callback is still running
    arrays,      \* the backing arrays of the middleware slices
    intended,    \* per mux: the list at its creation followed by what was
                 \* passed to Use on it (the list a value-copied slice would hold)
    nHandle,     \* Handle calls made so far
    nUse,        \* middleware values passed to Use so far
    last         \* the call made last, and for ServeHTTP the response it produced

vars == <<routes, rxPatterns, muxes, arrays, intended, nHandle, nUse, last>>

(***************************************************************************)
(* Contexts: a chain of (key, value) pairs; the package's keys have the    *)
(* unexported type key, so values stored by other packages are of another  *)
(* type and are never found by Param.                                      *)
(***************************************************************************)
WithValue(ctx, k, v) == Append(ctx, [typ |-> "key", k |-> k, v |-> v])

\* ctx.Value(key(k)): the innermost binding of k
Value(ctx, k) ==
    LET hits == {i \in 1..Len(ctx) : ctx[i].typ = "key" /\ ctx[i].k = k} IN
    IF hits = {} THEN [ok |-> FALSE, v |-> <<>>]
    ELSE [ok |-> TRUE, v |-> ctx[CHOOSE i \in hits : \A j \in hits : j <= i].v]

\* Param
Param(ctx, param) ==
    LET r == Value(ctx, param) IN IF ~r.ok THEN <<>> ELSE r.v

(***************************************************************************)
(* Middleware slices: a slice header (arr, len, cap) over a backing array. *)
(* arr = 0 is the nil slice.                                               *)
(***************************************************************************)
NilSlice == [arr |-> 0, len |-> 0, cap |-> 0]

\* s[0:len] over the heap as
ViewIn(as, sl) == IF sl.arr = 0 THEN <<>> ELSE SubSeq(as[sl.arr], 1, sl.len)

\* m.middleware[0:len]
View(sl) == ViewIn(arrays, sl)

(***************************************************************************)
(* wrap: a wrapped handler is the list of middleware around it, outermost  *)
(* first, and the handler inside.  The loop runs from the last middleware  *)
(* to the first, each one wrapping what the previous ones produced.        *)
(***************************************************************************)
Bare(h) == [mws |-> <<>>, h |-> h]

\* middleware[i](handler)
Apply(mw, handler) == [mws |-> <<mw>> \o handler.mws, h |-> handler.h]

RECURSIVE wrapLoop(_, _, _)
wrapLoop(mws, i, handler) ==
    IF i >= 1 THEN wrapLoop(mws, i - 1, Apply(mws[i], handler)) ELSE handler

RECURSIVE wrapLoopForward(_, _, _)
wrapLoopForward(mws, i, handler) ==
    IF i <= Len(mws) THEN wrapLoopForward(mws, i + 1, Apply(mws[i], handler)) ELSE handler

wrapForward(mws, handler) == wrapLoopForward(mws, 1, handler)

wrap(mws, handler) == wrapLoop(mws, Len(mws), handler)

\* handler.ServeHTTP(w, r): the events of one call, pass-through middleware
RECURSIVE Run(_)
Run(handler) ==
    IF Len(handler.mws) = 0 THEN <<[n |-> handler.h, ev |-> "call"]>>
    ELSE <<[n |-> handler.mws[1], ev |-> "in"]>>
         \o Run([mws |-> Tail(handler.mws), h |-> handler.h])
         \o <<[n |-> handler.mws[1], ev |-> "out"]>>

(***************************************************************************)
(* route.match                                                             *)
(***************************************************************************)
Colon    == <<":">>
Ellipsis == <<".",".",".">>

\* lines 132-158: the loop, from segment i on.  Handle compiles every regex
\* source before a request can meet it, so the cache lookup always succeeds.
RECURSIVE matchFrom(_, _, _, _)
matchFrom(ctx, r, urlSegments, i) ==
    IF i > Len(r.segments) THEN [ctx |-> ctx, ok |-> TRUE]
    ELSE LET segment == r.segments[i] IN
    IF i > Len(urlSegments) THEN [ctx |-> ctx, ok |-> FALSE]
    ELSE IF segment = Ellipsis
    THEN [ctx |-> WithValue(ctx, Ellipsis,
                            Join(SubSeq(urlSegments, i, Len(urlSegments)), "/")),
          ok |-> TRUE]
    ELSE IF HasPrefix(segment, Colon)
    THEN LET c == Cut(TrimPrefix(segment, Colon), "|") IN
         IF c.found /\ c.after \in rxPatterns /\ MatchString(c.after, urlSegments[i])
         THEN matchFrom(WithValue(ctx, c.before, urlSegments[i]), r, urlSegments, i + 1)
         ELSE IF ~c.found /\ urlSegments[i] # <<>>
         THEN matchFrom(WithValue(ctx, c.before, urlSegments[i]), r, urlSegments, i + 1)
         ELSE [ctx |-> ctx, ok |-> FALSE]
    ELSE IF urlSegments[i] # segment THEN [ctx |-> ctx, ok |-> FALSE]
    ELSE matchFrom(ctx, r, urlSegments, i + 1)

matchSameLength(ctx, r, urlSegments) ==
    IF Len(urlSegments) # Len(r.segments)
    THEN [ctx |-> ctx, ok |-> FALSE]
    ELSE matchFrom(ctx, r, urlSegments, 1)

match(ctx, r, urlSegments) ==
    IF ~r.wildcard /\ Len(urlSegments) # Len(r.segments)
    THEN [ctx |-> ctx, ok |-> FALSE]
    ELSE matchFrom(ctx, r, urlSegments, 1)


(***************************************************************************)
(* New                                                                     *)
(***************************************************************************)
NotFoundHandler         == [t |-> "NotFound", n |-> 0]
MethodNotAllowedHandler == [t |-> "MethodNotAllowed", n |-> 0]
OptionsHandler          == [t |-> "Options", n |-> 0]

\* the status the three default handlers write
Status(h) ==
    CASE h = NotFoundHandler -> 404
      [] h = MethodNotAllowedHandler -> 405
      [] h = OptionsHandler -> 204
      [] OTHER -> 0

New == [NotFound |-> NotFoundHandler,
        MethodNotAllowed |-> MethodNotAllowedHandler,
        Options |-> OptionsHandler,
        middleware |-> NilSlice]

Init ==
    /\ routes = <<>>
    /\ rxPatterns = {}
    /\ muxes = <<New>>
    /\ arrays = <<>>
    /\ intended = << <<>> >>
    /\ nHandle = 0
    /\ nUse = 0
    /\ last = [op |-> "New"]

\* a call returns before the next one is made
Idle == last.op # "ServeHTTP"

(***************************************************************************)
(* Handle                                                                  *)
(***************************************************************************)
\* lines 52-57: the default method list and the GET rule
effectiveMethods(methods) ==
    LET ms == IF Len(methods) = 0 THEN allMethods ELSE methods IN
    IF contains(ms, MethodGet) /\ ~contains(ms, MethodHead)
    THEN Append(ms, MethodGet)
    ELSE ms

\* lines 59-64: the route built for one method
newRoute(mws, pattern, handler, method) ==
    [method   |-> ToUpper(method),
     segments |-> Split(pattern, "/"),
     wildcard |-> HasSuffix(pattern, <<"/",".",".",".">>),
     handler  |-> wrap(mws, handler)]

appendRoutesFront(rs, new) == new \o rs

\* line 65, once per method
appendRoutes(rs, new) == rs \o new

\* lines 67-74: the regex sources of the pattern
rxSources(pattern) ==
    LET segs == Split(pattern, "/") IN
    {Cut(segs[i], "|").after :
        i \in {j \in 1..Len(segs) : HasPrefix(segs[j], Colon) /\ Cut(segs[j], "|").found}}

Handle(g, pattern, methods) ==
    /\ Idle
    /\ g \in 1..Len(muxes)
    /\ LET h   == [t |-> "handler", n |-> nHandle + 1]
           ms  == effectiveMethods(methods)
           mws == View(muxes[g].middleware)
           new == [i \in 1..Len(ms) |-> newRoute(mws, pattern, Bare(h), ms[i])]
       IN /\ routes' = appendRoutes(routes, new)
          /\ rxPatterns' = rxPatterns \cup rxSources(pattern)
          /\ last' = [op |-> "Handle", mux |-> g, h |-> h, pattern |-> pattern,
                      methods |-> methods]
    /\ nHandle' = nHandle + 1
    /\ UNCHANGED <<muxes, arrays, intended, nUse>>

(***************************************************************************)
(* Use: append(m.middleware, middleware...).  When the capacity suffices   *)
(* the values are written into the backing array in place; otherwise a new *)
(* array, at least large enough, is allocated and the slice moves to it.   *)
(***************************************************************************)
\* the middleware values handed to one Use call
freshMiddleware(k) == [i \in 1..k |-> [t |-> "mw", n |-> nUse + i]]

nilMw == [t |-> "nil", n |-> 0]

writeAt(arr, at, ms) ==
    [i \in 1..Len(arr) |-> IF i > at /\ i <= at + Len(ms) THEN ms[i - at] ELSE arr[i]]

\* a backing array no slice refers to any more is garbage: it is freed, and
\* the free arrays at the end of the heap are dropped
RECURSIVE trimFree(_)
trimFree(as) ==
    IF Len(as) > 0 /\ as[Len(as)] = <<>> THEN trimFree(SubSeq(as, 1, Len(as) - 1)) ELSE as

collect(ms, as) ==
    trimFree([i \in 1..Len(as) |->
                IF \E g \in 1..Len(ms) : ms[g].middleware.arr = i THEN as[i] ELSE <<>>])

\* append(s, ms...): newcap is the capacity the runtime chooses when it must
\* allocate, any capacity that is large enough
appendSlice(sl, ms, newcap) ==
    IF sl.len + Len(ms) <= sl.cap
    THEN [slice  |-> [sl EXCEPT !.len = sl.len + Len(ms)],
          arrays |-> [arrays EXCEPT ![sl.arr] = writeAt(@, sl.len, ms)]]
    ELSE [slice  |-> [arr |-> Len(arrays) + 1, len |-> sl.len + Len(ms), cap |-> newcap],
          arrays |-> Append(arrays,
                        [i \in 1..newcap |->
                            IF i <= sl.len THEN View(sl)[i]
                            ELSE IF i <= sl.len + Len(ms) THEN ms[i - sl.len]
                            ELSE nilMw])]

Use(g, k, newcap) ==
    /\ Idle
    /\ g \in 1..Len(muxes)
    /\ LET sl   == muxes[g].middleware
           ms   == freshMiddleware(k)
           need == sl.len + k
       IN /\ IF need <= sl.cap THEN newcap = sl.cap
                               ELSE newcap \in need..(need + MaxSpare)
          /\ \E r \in {appendSlice(sl, ms, newcap)} :
                /\ muxes' = [muxes EXCEPT ![g].middleware = r.slice]
                /\ arrays' = collect(muxes', r.arrays)
          /\ intended' = [intended EXCEPT ![g] = @ \o ms]
          /\ last' = [op |-> "Use", mux |-> g, ms |-> ms]
    /\ nUse' = nUse + k
    /\ UNCHANGED <<routes, rxPatterns, nHandle>>

(***************************************************************************)
(* Group: mm := *m; fn(&mm).  The callback runs until GroupReturn; while   *)
(* it runs it may call the copy, the router and every enclosing group.     *)
(***************************************************************************)
Group(g) ==
    /\ Idle
    /\ g \in 1..Len(muxes)
    /\ Len(muxes) <= MaxDepth
    /\ muxes' = Append(muxes, muxes[g])
    /\ intended' = Append(intended, View(muxes[g].middleware))
    /\ last' = [op |-> "Group", mux |-> g]
    /\ UNCHANGED <<routes, rxPatterns, arrays, nHandle, nUse>>

GroupReturn ==
    /\ Idle
    /\ Len(muxes) > 1
    /\ muxes' = SubSeq(muxes, 1, Len(muxes) - 1)
    /\ arrays' = collect(muxes', arrays)
    /\ intended' = SubSeq(intended, 1, Len(intended) - 1)
    /\ last' = [op |-> "GroupReturn"]
    /\ UNCHANGED <<routes, rxPatterns, nHandle, nUse>>


(***************************************************************************)
(* ServeHTTP                                                               *)
(***************************************************************************)
\* lines 84-95: the scan, from route i on.  found = 0 when no route matched
\* the path and the method; allowed is allowedMethods at the end of the loop.
RECURSIVE scanLeaking(_, _, _, _, _, _)
scanLeaking(rs, ctx, segments, method, i, allowed) ==
    IF i > Len(rs) THEN [found |-> 0, ctx |-> ctx, allowed |-> allowed]
    ELSE LET res == match(ctx, rs[i], segments) IN
         IF res.ok
         THEN IF method = rs[i].method
              THEN [found |-> i, ctx |-> res.ctx, allowed |-> allowed]
              ELSE scanLeaking(rs, res.ctx, segments, method, i + 1,
                        IF ~contains(allowed, rs[i].method)
                        THEN Append(allowed, rs[i].method) ELSE allowed)
         ELSE scanLeaking(rs, res.ctx, segments, method, i + 1, allowed)

RECURSIVE scanAnyMethod(_, _, _, _, _, _)
scanAnyMethod(rs, ctx, segments, method, i, allowed) ==
    IF i > Len(rs) THEN [found |-> 0, ctx |-> ctx, allowed |-> allowed]
    ELSE LET res == match(ctx, rs[i], segments) IN
         IF res.ok
         THEN [found |-> i, ctx |-> res.ctx, allowed |-> allowed]
         ELSE scanAnyMethod(rs, ctx, segments, method, i + 1, allowed)

RECURSIVE scan(_, _, _, _, _, _)
scan(rs, ctx, segments, method, i, allowed) ==
    IF i > Len(rs) THEN [found |-> 0, ctx |-> ctx, allowed |-> allowed]
    ELSE LET res == match(ctx, rs[i], segments) IN
         IF res.ok
         THEN IF method = rs[i].method
              THEN [found |-> i, ctx |-> res.ctx, allowed |-> allowed]
              ELSE scan(rs, ctx, segments, method, i + 1,
                        IF ~contains(allowed, rs[i].method)
                        THEN Append(allowed, rs[i].method) ELSE allowed)
         ELSE scan(rs, ctx, segments, method, i + 1, allowed)

allowHeaderBare(allowedMethods) == Join(allowedMethods, ",")

\* line 97: the value of the Allow header
allowHeader(allowedMethods) == Join(Append(allowedMethods, MethodOptions), ",")

rewrapped(mws, route) == wrap(mws, route.handler)

\* line 88: the handler a matched route is served by
routeHandler(mws, route) == route.handler

NoHeader == [set |-> FALSE, v |-> <<>>]

\* lines 82-105: what one request is resolved to
resolve(m, mws, method, path, base) ==
    LET s == scan(routes, base, Split(path, "/"), method, 1, <<>>) IN
    IF s.found > 0
    THEN [idx |-> s.found, handler |-> routeHandler(mws, routes[s.found]),
          ctx |-> s.ctx, allow |-> NoHeader]
    ELSE IF Len(s.allowed) > 0
    THEN [idx |-> 0,
          handler |-> IF method = MethodOptions
                      THEN wrap(mws, Bare(m.Options))
                      ELSE wrap(mws, Bare(m.MethodNotAllowed)),
          ctx |-> base,
          allow |-> [set |-> TRUE, v |-> allowHeader(s.allowed)]]
    ELSE [idx |-> 0, handler |-> wrap(mws, Bare(m.NotFound)),
          ctx |-> base, allow |-> NoHeader]

ServeHTTP(g, method, path, base) ==
    /\ Idle
    /\ g \in 1..Len(muxes)
    /\ \E out \in {resolve(muxes[g], View(muxes[g].middleware), method, path, base)} :
          last' = [op |-> "ServeHTTP", mux |-> g, method |-> method, path |-> path,
                   base |-> base, idx |-> out.idx, handler |-> out.handler,
                   events |-> Run(out.handler), ctx |-> out.ctx, allow |-> out.allow]
    /\ UNCHANGED <<routes, rxPatterns, muxes, arrays, intended, nHandle, nUse>>

\* the handler returns and the request completes
Done ==
    /\ last.op = "ServeHTTP"
    /\ last' = [op |-> "Done"]
    /\ UNCHANGED <<routes, rxPatterns, muxes, arrays, intended, nHandle, nUse>>

(***************************************************************************)
(* Inputs.                                                                 *)
(***************************************************************************)
PWidgets   == <<"/","w","i","d","g","e","t","s">>
PUsersId   == <<"/","u","s","e","r","s","/",":","i","d">>
PUsersIdRx == <<"/","u","s","e","r","s","/",":","i","d","|","[","0","-","9","]","+">>
PFilesAny  == <<"/","f","i","l","e","s","/",".",".",".">>
PAnyAny    == <<"/",":","a","/",".",".",".">>

Patterns == {PWidgets, PUsersId, PUsersIdRx, PFilesAny, PAnyAny}

MethodLists == {<<>>, <<MethodPost>>, <<MethodGet, MethodPost>>, <<MethodOptions>>,
                <<<<"p","o","s","t">>>>}

UWidgets  == <<"/","w","i","d","g","e","t","s">>
UUsers42  == <<"/","u","s","e","r","s","/","4","2">>
UUsersAbc == <<"/","u","s","e","r","s","/","a","b","c">>
UUsersA1  == <<"/","u","s","e","r","s","/","a","1">>
UUsers    == <<"/","u","s","e","r","s","/">>
UFilesABC == <<"/","f","i","l","e","s","/","a","/","b","/","c">>
UFiles    == <<"/","f","i","l","e","s">>
UFilesSl  == <<"/","f","i","l","e","s","/">>

Paths == {UWidgets, UUsers42, UUsersAbc, UUsersA1, UUsers, UFilesABC, UFiles, UFilesSl}

RequestMethods == {MethodGet, MethodPost, MethodOptions}

\* r.Context(): empty, or carrying a value stored by another package
Foreign == <<[typ |-> "other", k |-> <<"i","d">>, v |-> <<"x">>]>>
BaseContexts == {<<>>, Foreign}

(***************************************************************************)
(* Matching: one router without middleware, every pattern against every    *)
(* path.                                                                   *)
(***************************************************************************)
NextMatch ==
    \/ \E p \in Patterns : nHandle < MaxHandles /\ Handle(1, p, <<MethodPost>>)
    \/ \E u \in Paths : ServeHTTP(1, MethodPost, u, <<>>)
    \/ Done

SpecMatch == Init /\ [][NextMatch]_vars

(***************************************************************************)
(* Dispatch: one router without middleware, overlapping patterns and every *)
(* method list.                                                            *)
(***************************************************************************)
NextRoute ==
    \/ \E p \in {PWidgets, PUsersId, PAnyAny}, ms \in MethodLists :
          nHandle < MaxHandles /\ Handle(1, p, ms)
    \/ \E me \in RequestMethods, u \in {UWidgets, UUsers42, UFiles}, b \in BaseContexts :
          ServeHTTP(1, me, u, b)
    \/ Done

SpecRoute == Init /\ [][NextRoute]_vars

(***************************************************************************)
(* Middleware: the router and its groups, one pattern.                     *)
(***************************************************************************)
Next ==
    \/ \E g \in 1..(MaxDepth + 1) : nHandle < MaxRegs /\ Handle(g, PWidgets, <<MethodPost>>)
    \/ \E g \in 1..(MaxDepth + 1), k \in 1..2, c \in 0..(MaxUses + MaxSpare) :
          nUse + k <= MaxUses /\ Use(g, k, c)
    \/ \E g \in 1..(MaxDepth + 1) : Group(g)
    \/ GroupReturn
    \/ \E me \in {MethodGet, MethodPost} : ServeHTTP(1, me, UWidgets, <<>>)
    \/ Done

Spec == Init /\ [][Next]_vars

(***************************************************************************)
(* Groups: as Spec, with enough Use calls for a group and its parent to    *)
(* append to one backing array in turn.                                    *)
(***************************************************************************)
NextGroup ==
    \/ \E g \in 1..(MaxDepth + 1) : nHandle < MaxRegs /\ Handle(g, PWidgets, <<MethodPost>>)
    \/ \E g \in 1..(MaxDepth + 1), k \in 1..2, c \in 0..(MaxGroupUses + MaxSpare) :
          nUse + k <= MaxGroupUses /\ Use(g, k, c)
    \/ \E g \in 1..(MaxDepth + 1) : Group(g)
    \/ GroupReturn
    \/ ServeHTTP(1, MethodPost, UWidgets, <<>>)
    \/ Done

SpecGroup == Init /\ [][NextGroup]_vars

(***************************************************************************)
(* Properties.  The request and the response they speak of are those of    *)
(* the ServeHTTP call recorded in last.                                    *)
(***************************************************************************)
Served == last.op = "ServeHTTP"

ReqSegs == Split(last.path, "/")

\* route i matches the request path / the path and the method
PathMatches(i) == match(last.base, routes[i], ReqSegs).ok
Exact(i) == PathMatches(i) /\ routes[i].method = last.method

Min(S) == CHOOSE x \in S : \A y \in S : x <= y

\* only the handler of route i ran, as one call
OnlyRan(i) ==
    /\ last.handler = routes[i].handler
    /\ last.events = Run(routes[i].handler)
    /\ \A e \in 1..Len(last.events) :
          last.events[e].n.t = "handler" => last.events[e].n = routes[i].handler.h

\* the routes before a step are the first routes after it
RoutesKept == Len(routes') >= Len(routes) /\ SubSeq(routes', 1, Len(routes)) = routes

\* C1, as stated: a request whose path and method match a registered route
\* invokes that route's handler and no other handler.
C1_AnyMatchingRouteServes ==
    Served => \A i \in 1..Len(routes) : Exact(i) => OnlyRan(i)

\* C1, amended: a request whose path and method match a registered route, and
\* match no route registered before it, invokes that route's handler and no
\* other handler.
C1_FirstMatchingRouteServes ==
    Served => \A i \in 1..Len(routes) :
        (Exact(i) /\ \A j \in 1..(i - 1) : ~Exact(j)) => (last.idx = i /\ OnlyRan(i))

C1_Witness ==
    /\ Served
    /\ last.idx > 0
    /\ Exact(last.idx)
    /\ \E j \in 1..Len(routes) :
          ~Exact(j) /\ PathMatches(j) /\ routes[j].handler # routes[last.idx].handler

\* the distinct elements of a sequence, in the order of their first occurrence
RECURSIVE FirstOccurrences(_)
FirstOccurrences(q) ==
    IF Len(q) = 0 THEN <<>>
    ELSE LET front == FirstOccurrences(SubSeq(q, 1, Len(q) - 1))
             x     == q[Len(q)]
         IN IF \E i \in 1..Len(front) : front[i] = x THEN front ELSE Append(front, x)

RECURSIVE MethodsOfMatching(_)
MethodsOfMatching(n) ==
    IF n = 0 THEN <<>>
    ELSE IF PathMatches(n) THEN Append(MethodsOfMatching(n - 1), routes[n].method)
    ELSE MethodsOfMatching(n - 1)

AllowPostOptions == <<"P","O","S","T",",","O","P","T","I","O","N","S">>
AllowGetPostOptions ==
    <<"G","E","T",",","P","O","S","T",",","O","P","T","I","O","N","S">>

\* C2: with no route matching path and method but some route matching the
\* path, Allow lists the distinct methods of the path-matching routes in table
\* order, then OPTIONS, and the Options handler (204) serves an OPTIONS
\* request, the MethodNotAllowed handler (405) any other; with no route matching
\* the path NotFound (404) serves and Allow is not set.
C2_AllowHeader ==
    Served =>
      LET exact   == {i \in 1..Len(routes) : Exact(i)}
          methods == FirstOccurrences(MethodsOfMatching(Len(routes)))
      IN /\ (exact = {} /\ Len(methods) > 0) =>
               /\ last.allow.set
               /\ last.allow.v = Join(methods \o <<MethodOptions>>, ",")
               /\ Len(last.events) = 1
               /\ IF last.method = MethodOptions
                  THEN last.handler.h = OptionsHandler /\ Status(last.handler.h) = 204
                  ELSE last.handler.h = MethodNotAllowedHandler
                       /\ Status(last.handler.h) = 405
         /\ Len(methods) = 0 =>
               /\ ~last.allow.set
               /\ last.handler.h = NotFoundHandler
               /\ Status(last.handler.h) = 404
         /\ (methods = <<MethodPost>> /\ last.method = MethodGet) =>
               last.allow.v = AllowPostOptions
         /\ (methods = <<MethodGet, MethodPost>> /\ last.method = MethodOptions) =>
               last.allow.v = AllowGetPostOptions

C2_Witness ==
    /\ Served
    /\ Len(routes) = 1
    /\ routes[1].method = MethodPost
    /\ last.path = UWidgets
    /\ last.method = MethodGet
    /\ last.allow = [set |-> TRUE, v |-> AllowPostOptions]
    /\ last.handler.h = MethodNotAllowedHandler

(***************************************************************************)
(* The matcher.                                                            *)
(***************************************************************************)
\* the position of the wildcard marker in a route's segments
WildPos(r) == CHOOSE k \in 1..Len(r.segments) :
                 r.segments[k] = Ellipsis /\ \A j \in 1..(k - 1) : r.segments[j] # Ellipsis

\* a regex matches the full text of s
FullMatch(re, s) == MatchString(<<"^">> \o re \o <<"$">>, s)

IsRxSegment(seg) == HasPrefix(seg, Colon) /\ Cut(seg, "|").found

\* one pattern segment against one request segment, under the matcher
SegmentMatches(seg, u) ==
    IF IsRxSegment(seg) THEN MatchString(Cut(seg, "|").after, u)
    ELSE IF HasPrefix(seg, Colon) THEN u # <<>>
    ELSE seg = u

\* the request's leading segments match the pattern's segments before '...'
LeadingMatch(r, url) ==
    /\ Len(url) >= WildPos(r) - 1
    /\ \A i \in 1..(WildPos(r) - 1) : SegmentMatches(r.segments[i], url[i])

TailOf(r, url) == Join(SubSeq(url, WildPos(r), Len(url)), "/")

\* C3, as stated: a wildcard route matches every path whose leading segments
\* match the segments before '...', however many segments follow (none
\* included), and binds '...' to the remaining segments joined by '/'.
C3_WildcardAnyLength ==
    Served => \A i \in 1..Len(routes) :
        (routes[i].wildcard /\ LeadingMatch(routes[i], ReqSegs)) =>
            LET res == match(last.base, routes[i], ReqSegs) IN
            res.ok /\ Param(res.ctx, Ellipsis) = TailOf(routes[i], ReqSegs)

\* C3, amended: a wildcard route matches every path that has a segment,
\* possibly empty, at the position of '...' and whose leading segments match
\* the segments before it, and binds '...' to the remaining segments joined by
\* '/'; a path with no segment at that position ('/files' against
\* '/files/...') does not match.
C3_WildcardNeedsSegment ==
    Served => \A i \in 1..Len(routes) :
        routes[i].wildcard =>
            LET res == match(last.base, routes[i], ReqSegs) IN
            /\ (LeadingMatch(routes[i], ReqSegs) /\ Len(ReqSegs) >= WildPos(routes[i])) =>
                  /\ res.ok
                  /\ Param(res.ctx, Ellipsis) = TailOf(routes[i], ReqSegs)
                  /\ (i = Min({j \in 1..Len(routes) : PathMatches(j)}) =>
                         last.idx = i /\ last.ctx = res.ctx)
            /\ Len(ReqSegs) < WildPos(routes[i]) => ~res.ok

C3_Witness ==
    /\ Served
    /\ last.idx > 0
    /\ routes[last.idx].wildcard
    /\ routes[last.idx].segments = Split(PFilesAny, "/")
    /\ last.path = UFilesABC
    /\ Param(last.ctx, Ellipsis) = <<"a","/","b","/","c">>

\* C4: a regex-constrained parameter matches a request segment only if the
\* regex matches the segment's full text, and then binds the name to the
\* whole segment.
C4_RegexFullText ==
    Served => \A i \in 1..Len(routes) :
        LET r   == routes[i]
            res == match(last.base, r, ReqSegs)
        IN res.ok => \A p \in 1..Len(r.segments) :
              (IsRxSegment(r.segments[p]) /\ \A j \in 1..p : r.segments[j] # Ellipsis) =>
                  LET c == Cut(TrimPrefix(r.segments[p], Colon), "|") IN
                  /\ FullMatch(c.after, ReqSegs[p])
                  /\ Param(res.ctx, c.before) = ReqSegs[p]

(***************************************************************************)
(* Dispatch.                                                               *)
(***************************************************************************)
EarliestWins ==
    Served =>
      LET exact == {i \in 1..Len(routes) : Exact(i)} IN
      exact # {} => (last.idx = Min(exact) /\ OnlyRan(Min(exact)))

\* C5: among the routes matching the request's path and method the one
\* registered first is invoked, and a registration never moves or replaces
\* the routes registered before it.
C5_RegistrationOrder == []EarliestWins /\ [][RoutesKept]_vars

C5_Witness ==
    /\ Served
    /\ last.idx > 0
    /\ \E j \in (last.idx + 1)..Len(routes) :
          /\ Exact(j)
          /\ routes[j].segments = routes[last.idx].segments
          /\ routes[j].handler # routes[last.idx].handler

CountOf(q, x) == Cardinality({i \in 1..Len(q) : q[i] = x})

\* C9: in the Allow header every method appears at most once and OPTIONS
\* exactly once.
C9_AllowDistinct ==
    (Served /\ last.allow.set) =>
        LET listed == Split(last.allow.v, ",") IN
        /\ \A i \in 1..Len(listed) : CountOf(listed, listed[i]) = 1
        /\ CountOf(listed, MethodOptions) = 1

\* the names a route's pattern binds
ParamNames(r) ==
    {IF r.segments[i] = Ellipsis THEN Ellipsis
     ELSE Cut(TrimPrefix(r.segments[i], Colon), "|").before :
        i \in {j \in 1..Len(r.segments) :
                 r.segments[j] = Ellipsis \/ HasPrefix(r.segments[j], Colon)}}

Names == {<<"i","d">>, <<"a">>, Ellipsis}

\* C10: the handler of the invoked route receives exactly the bindings made
\* by matching that route, on top of the request's context; the default
\* handlers receive the request's context, in which no parameter is bound.
C10_NoLeak ==
    Served =>
      IF last.idx > 0
      THEN /\ last.ctx = match(last.base, routes[last.idx], ReqSegs).ctx
           /\ SubSeq(last.ctx, 1, Len(last.base)) = last.base
           /\ \A n \in Names :
                 Param(last.ctx, n) # <<>> => n \in ParamNames(routes[last.idx])
      ELSE /\ last.ctx = last.base
           /\ \A n \in Names : Param(last.ctx, n) = <<>>

C10_Witness ==
    /\ Served
    /\ last.idx > 1
    /\ last.base = Foreign
    /\ Param(last.ctx, <<"i","d">>) = <<"4","2">>
    /\ Param(last.ctx, <<"a">>) = <<>>
    /\ \E j \in 1..(last.idx - 1) : PathMatches(j) /\ <<"a">> \in ParamNames(routes[j])

(***************************************************************************)
(* Middleware and groups.                                                  *)
(***************************************************************************)
\* the events of m1(m2(...mn(h))): in m1 .. in mn, h, out mn .. out m1
Onion(ms, h) ==
    [i \in 1..(2 * Len(ms) + 1) |->
        IF i <= Len(ms) THEN [n |-> ms[i], ev |-> "in"]
        ELSE IF i = Len(ms) + 1 THEN [n |-> h, ev |-> "call"]
        ELSE [n |-> ms[2 * Len(ms) + 2 - i], ev |-> "out"]]

\* the routes the Handle call recorded in last has registered
Registered == {i \in 1..Len(routes) : routes[i].handler.h = last.h}

\* the list of the router the call recorded in last was made on
ListOfCaller == View(muxes[last.mux].middleware)

UseAppends ==
    last'.op = "Use" =>
        ViewIn(arrays', muxes'[last'.mux].middleware)
            = View(muxes[last'.mux].middleware) \o last'.ms

OnionAtHandle ==
    last.op = "Handle" =>
        \A i \in Registered : Run(routes[i].handler) = Onion(ListOfCaller, last.h)

OnionAtDispatch ==
    (Served /\ last.idx > 0) =>
        LET h == routes[last.idx].handler IN
        /\ last.events = Onion(h.mws, h.h)
        /\ \A i \in 1..Len(h.mws) : CountOf(h.mws, h.mws[i]) = 1

\* C6: Use appends in the order given; a handler registered on a router whose
\* list is [m1..mn] runs as m1(m2(...mn(H))): inbound m1..mn then H, outbound
\* mn..m1, each middleware once.
C6_Onion == [](OnionAtHandle /\ OnionAtDispatch) /\ [][UseAppends]_vars

C6_Witness ==
    /\ Served
    /\ last.idx > 0
    /\ last.events = << [n |-> [t |-> "mw", n |-> 1], ev |-> "in"],
                        [n |-> [t |-> "mw", n |-> 2], ev |-> "in"],
                        [n |-> [t |-> "handler", n |-> 1], ev |-> "call"],
                        [n |-> [t |-> "mw", n |-> 2], ev |-> "out"],
                        [n |-> [t |-> "mw", n |-> 1], ev |-> "out"] >>

ChainAtHandle ==
    last.op = "Handle" => \A i \in Registered : routes[i].handler.mws = ListOfCaller

ChainAtDispatch ==
    (Served /\ last.idx > 0) =>
        /\ last.handler = routes[last.idx].handler
        /\ last.events = Run(routes[last.idx].handler)

\* C7: a route's chain is the registering router's list at the moment of
\* Handle; no later Use, Handle or Group changes it, and dispatch runs it.
C7_ChainFixed == [](ChainAtHandle /\ ChainAtDispatch) /\ [][RoutesKept]_vars

C7_Witness ==
    /\ Served
    /\ last.idx > 0
    /\ Len(routes[last.idx].handler.mws) = 1
    /\ Len(View(muxes[1].middleware)) = 2
    /\ last.events = Onion(routes[last.idx].handler.mws, routes[last.idx].handler.h)

\* C8: a route is wrapped by exactly the list its router had when it was
\* created followed by what was passed to Use on that router, whatever other
\* routers sharing its backing array have appended.
C8_GroupIsolation ==
    last.op = "Handle" => \A i \in Registered : routes[i].handler.mws = intended[last.mux]

=============================================================================
